---- MODULE Spec2Model ----
(***************************************************************************)
(* Model of the orchestration loop of crawlab-mcp:                         *)
(*   MCPClient.connect_to_server, MCPClient.identify_user_intent and       *)
(*   MCPClient.process_query (src/crawlab/mcp/clients/client.py).          *)
(*                                                                         *)
(* Python values are modelled as follows.                                  *)
(*   - a str is a tuple <<"str", piece, ...>> (an f-string keeps its       *)
(*     pieces), None is <<"none">>;                                        *)
(*   - a tool name is a sequence of one-letter strings, so that the        *)
(*     substring test of `name in some_str` can be computed;               *)
(*   - the text of the triage answer is a sequence of JSON tokens, parsed  *)
(*     by JsonLoads the way json.loads parses the characters.              *)
(***************************************************************************)
EXTENDS Naturals, Integers, Sequences, FiniteSets, TLC

\* ------------------------------------------------------------------ bounds
\* largest number of tool calls the model's initial response carries
MaxCalls == 2
\* largest number of tools the server advertises
MaxTools == 2

\* ------------------------------------------------------- python values
None == <<"none">>
Str(s) == <<"str", s>>
IsNone(v) == v = None

\* tool names, as sequences of letters
ToolA == <<"a">>
ToolAB == <<"a", "b">>
ToolB == <<"b">>
Catalogue == <<ToolA, ToolB, ToolAB>>

\* ------------------------------------------------------------ JSON text
\* tokens of a text
Ws == [t |-> "ws", s |-> <<>>]
LBrack == [t |-> "lbrack", s |-> <<>>]
RBrack == [t |-> "rbrack", s |-> <<>>]
LBrace == [t |-> "lbrace", s |-> <<>>]
RBrace == [t |-> "rbrace", s |-> <<>>]
Comma == [t |-> "comma", s |-> <<>>]
Colon == [t |-> "colon", s |-> <<>>]
Num == [t |-> "num", s |-> <<>>]
Null == [t |-> "null", s |-> <<>>]
\* a double-quoted string literal with the letters s
Quoted(s) == [t |-> "str", s |-> s]
\* a bare word (letters without quotes), such as Generic
Word(s) == [t |-> "word", s |-> s]

GenericWord == <<"G", "e", "n", "e", "r", "i", "c">>
\* the literal text Generic
GenericText == <<Word(GenericWord)>>

\* decoded JSON values
JStr(s) == [k |-> "str", s |-> s, items |-> <<>>, keys |-> {}]
JNum == [k |-> "num", s |-> <<>>, items |-> <<>>, keys |-> {}]
JNull == [k |-> "null", s |-> <<>>, items |-> <<>>, keys |-> {}]
JArr(items) == [k |-> "arr", s |-> <<>>, items |-> items, keys |-> {}]
JObj(keys) == [k |-> "obj", s |-> <<>>, items |-> <<>>, keys |-> keys]

ParseFail == [ok |-> FALSE, val |-> JNull, next |-> 0]
ParseOk(v, n) == [ok |-> TRUE, val |-> v, next |-> n]

\* str.strip(): drop leading and trailing whitespace
RECURSIVE LStrip(_)
LStrip(text) ==
    IF text # <<>> /\ Head(text).t = "ws" THEN LStrip(Tail(text)) ELSE text

RECURSIVE RStrip(_)
RStrip(text) ==
    IF text # <<>> /\ text[Len(text)].t = "ws"
    THEN RStrip(SubSeq(text, 1, Len(text) - 1))
    ELSE text

Strip(text) == RStrip(LStrip(text))

\* whitespace between JSON tokens is skipped by the decoder
RECURSIVE DropWs(_)
DropWs(text) ==
    IF text = <<>> THEN <<>>
    ELSE IF Head(text).t = "ws" THEN DropWs(Tail(text))
    ELSE <<Head(text)>> \o DropWs(Tail(text))

RECURSIVE ParseValue(_, _)
RECURSIVE ParseItems(_, _, _)
RECURSIVE ParseMembers(_, _, _)

\* one JSON value starting at token p
ParseValue(t, p) ==
    IF p > Len(t) THEN ParseFail
    ELSE IF t[p].t = "str" THEN ParseOk(JStr(t[p].s), p + 1)
    ELSE IF t[p].t = "num" THEN ParseOk(JNum, p + 1)
    ELSE IF t[p].t = "null" THEN ParseOk(JNull, p + 1)
    ELSE IF t[p].t = "lbrack" THEN
        IF p + 1 <= Len(t) /\ t[p + 1].t = "rbrack"
        THEN ParseOk(JArr(<<>>), p + 2)
        ELSE ParseItems(t, p + 1, <<>>)
    ELSE IF t[p].t = "lbrace" THEN
        IF p + 1 <= Len(t) /\ t[p + 1].t = "rbrace"
        THEN ParseOk(JObj({}), p + 2)
        ELSE ParseMembers(t, p + 1, {})
    ELSE ParseFail

\* the elements of an array, after "[" or ","
ParseItems(t, p, acc) ==
    LET v == ParseValue(t, p) IN
    IF ~v.ok \/ v.next > Len(t) THEN ParseFail
    ELSE IF t[v.next].t = "comma" THEN ParseItems(t, v.next + 1, Append(acc, v.val))
    ELSE IF t[v.next].t = "rbrack" THEN ParseOk(JArr(Append(acc, v.val)), v.next + 1)
    ELSE ParseFail

\* the members of an object, after "{" or ","
ParseMembers(t, p, acc) ==
    IF p + 1 > Len(t) \/ t[p].t # "str" \/ t[p + 1].t # "colon" THEN ParseFail
    ELSE LET v == ParseValue(t, p + 2) IN
         IF ~v.ok \/ v.next > Len(t) THEN ParseFail
         ELSE IF t[v.next].t = "comma" THEN ParseMembers(t, v.next + 1, acc \cup {t[p].s})
         ELSE IF t[v.next].t = "rbrace" THEN ParseOk(JObj(acc \cup {t[p].s}), v.next + 1)
         ELSE ParseFail

\* json.loads(text): ok = FALSE stands for json.JSONDecodeError
JsonLoads(text) ==
    LET t == DropWs(text)
        v == ParseValue(t, 1)
    IN IF v.ok /\ v.next = Len(t) + 1 THEN v ELSE ParseFail

\* a in b for two str values
IsSubstring(a, b) ==
    \E i \in 0..Len(b) : i + Len(a) <= Len(b) /\ SubSeq(b, i + 1, i + Len(a)) = a

\* `name in tools` for a str name and a decoded JSON value tools:
\* "TypeError" when the value is not a container
PyIn(name, v) ==
    IF v.k = "arr" THEN
        IF \E i \in 1..Len(v.items) : v.items[i].k = "str" /\ v.items[i].s = name
        THEN "true" ELSE "false"
    ELSE IF v.k = "str" THEN (IF IsSubstring(name, v.s) THEN "true" ELSE "false")
    ELSE IF v.k = "obj" THEN (IF name \in v.keys THEN "true" ELSE "false")
    ELSE "TypeError"


\* ------------------------------------------------------- collaborators
\* the tag catalogue in a list_tags answer: tag objects {name, description, tools}
TagObj(n) == [k |-> "obj", s |-> n]
\* a bare tag name
TagName(n) == [k |-> "str", s |-> n]

\* what session.call_tool("list_tags", {}) can answer: content is a str, a
\* non-empty list of message parts, or something else; json is the decoded
\* text ("invalid" when it does not decode)
TagsResponses ==
    { [enc |-> "parts", json |-> "dict", tags |-> <<>>],
      [enc |-> "parts", json |-> "dict", tags |-> <<TagObj("spiders")>>],
      [enc |-> "parts", json |-> "list", tags |-> <<TagName("spiders")>>],
      [enc |-> "parts", json |-> "invalid", tags |-> <<>>],
      [enc |-> "str", json |-> "dict", tags |-> <<TagObj("spiders"), TagObj("nodes")>>],
      [enc |-> "str", json |-> "list", tags |-> <<TagName("spiders"), TagName("nodes")>>],
      [enc |-> "str", json |-> "invalid", tags |-> <<>>],
      [enc |-> "other", json |-> "invalid", tags |-> <<>>] }

\* the tags connect_to_server stores for an answer of list_tags
ParseTags(r) ==
    IF r.enc = "str" THEN
        IF r.json = "invalid" THEN <<>> ELSE r.tags
    ELSE IF r.enc = "parts" THEN
        IF r.json = "dict" THEN r.tags ELSE <<>>
    ELSE <<>>

\* ', '.join(tags) raises TypeError unless every item is a str
JoinRaises(tagList) == \E j \in 1..Len(tagList) : tagList[j].k # "str"

\* the tools a server can advertise
ToolLists == { SubSeq(Catalogue, 1, n) : n \in 0..MaxTools }

\* texts the classification call can answer with
IntentTexts ==
    { GenericText,
      <<Ws, Word(GenericWord), Ws>>,
      <<Quoted(GenericWord)>>,
      <<LBrack, Quoted(<<"t">>)>>,
      <<LBrack, RBrack>>,
      <<LBrack, Quoted(ToolA), RBrack>>,
      <<LBrack, Quoted(ToolB), Comma, Quoted(ToolA), RBrack>>,
      <<LBrack, Quoted(ToolB), Comma, Num, RBrack>>,
      <<Quoted(ToolAB)>>,
      <<Num>>,
      <<Null>>,
      <<LBrace, Quoted(ToolA), Colon, Num, RBrace>> }

\* arguments texts of a tool call: {} and a truncated text
ArgsTexts == { <<LBrace, RBrace>>, <<LBrace>> }

\* a tool call of a completion response
ToolCall(id, name, arguments) ==
    [id |-> id, function |-> [name |-> name, arguments |-> arguments]]

\* the lists of tool calls an initial response can carry; ids are 1..n
RECURSIVE CallLists(_)
CallLists(n) ==
    IF n = 0 THEN { <<>> }
    ELSE { Append(l, ToolCall(n, nm, a)) :
             l \in { x \in CallLists(n - 1) : Len(x) = n - 1 },
             nm \in {ToolA}, a \in ArgsTexts } \cup CallLists(n - 1)

Contents == { None, Str("text") }

\* responses of the initial completion call
InitialResponses ==
    { [content |-> c, tool_calls |-> l] : c \in Contents, l \in CallLists(MaxCalls) }

\* responses of a follow-up completion call; a tool call it carries has id 0
FollowUpResponses ==
    { [content |-> c, tool_calls |-> l] :
        c \in { None, Str("more") }, l \in { <<>>, <<ToolCall(0, ToolA, <<LBrace, RBrace>>)>> } }

NoResponse == [content |-> None, tool_calls |-> <<>>]

\* the tools / tool_choice arguments of a completion call
ToolsNone == [none |-> TRUE, list |-> <<>>]
ToolsList(l) == [none |-> FALSE, list |-> l]


\* ======================================================================
\* The tool synthesizer: create_mcp_server (src/crawlab/mcp/servers/server.py,
\* src/server.py) and create_tool_function (src/crawlab/mcp/utils/tools.py,
\* src/utils.py).
\*
\* A parameter name is a sequence of pieces; every underscore is a piece of
\* its own, so that startswith("_"), lstrip("_") and the f-strings
\* param_<name> and <name>_<n> are computed on the name.
\* ======================================================================

\* largest number of parameters and body properties of an operation
MaxParams == 2

NameId == <<"id">>
NameUId == <<"_", "id">>
NameParamId == <<"param", "_", "id">>
NameClass == <<"class">>
NameName == <<"name">>
NameDescription == <<"description">>
NameTags == <<"tags">>
NameConfig == <<"config">>

\* the parameter names of the modelled API descriptions, with the type each
\* one is declared with
ParamNames ==
    { NameId, NameUId, NameParamId, NameClass, NameName, NameDescription,
      NameTags, NameConfig }

TypeOf(n) ==
    CASE n = NameId -> "string"
      [] n = NameUId -> "integer"
      [] n = NameParamId -> "number"
      [] n = NameClass -> "boolean"
      [] n = NameName -> "string"
      [] n = NameDescription -> "string"
      [] n = NameTags -> "array"
      [] OTHER -> "object"

\* PYTHON_KEYWORDS (the entries that are single pieces of the modelled names)
PythonKeywords == { <<"class">>, <<"from">>, <<"import">>, <<"in">>, <<"is">> }

\* a parameter or a request-body property of an operation
ParamSpec(n, req) == [name |-> n, required |-> req, type |-> TypeOf(n)]

ParamSpecs == { ParamSpec(n, req) : n \in ParamNames, req \in BOOLEAN }

\* the sequences of at most n parameters with pairwise distinct names
RECURSIVE ParamLists(_)
ParamLists(n) ==
    IF n = 0 THEN { <<>> }
    ELSE LET shorter == ParamLists(n - 1) IN
         shorter \cup
         { Append(l, ps) :
             l \in { x \in shorter : Len(x) = n - 1 },
             ps \in { q \in ParamSpecs : TRUE } }

DistinctNames(l) == \A a, b \in 1..Len(l) : a # b => l[a].name # l[b].name

\* path templates, as tokens: "/" , a literal segment, a {placeholder}, and
\* after substitution the text of a value
Slash == [t |-> "slash", s |-> <<>>]
Lit(x) == [t |-> "lit", s |-> x]
Placeholder(n) == [t |-> "ph", s |-> n]
ValueText(v) == [t |-> "val", s |-> v]

NameTaskId == <<"task", "_", "id">>

\* /spiders
PathPlain == <<Slash, Lit(<<"spiders">>)>>
\* /spiders/{n}
PathWith(n) == <<Slash, Lit(<<"spiders">>), Slash, Placeholder(n)>>

Methods == { "get", "post", "delete" }

Upper(m) == CASE m = "get" -> "GET" [] m = "post" -> "POST" [] OTHER -> "DELETE"

\* the operations of the modelled API descriptions: the parameters named in
\* the path and, for get and delete, all others are `parameters`; for post
\* the others are properties of the JSON request body
OperationOf(m, path, l) ==
    LET inPath(ps) == \E k \in 1..Len(path) : path[k] = Placeholder(ps.name)
        isParam(ps) == inPath(ps) \/ m # "post"
    IN [method |-> m,
        path |-> path,
        parameters |-> SelectSeq(l, isParam),
        properties |-> SelectSeq(l, LAMBDA ps : ~isParam(ps))]

Operations ==
    { OperationOf(m, path, l) :
        m \in Methods,
        path \in {PathPlain, PathWith(NameTaskId)},
        l \in { x \in ParamLists(MaxParams) : DistinctNames(x) } }
    \cup
    { OperationOf(m, PathWith(l[1].name), l) :
        m \in Methods,
        l \in { x \in ParamLists(MaxParams) : DistinctNames(x) /\ Len(x) >= 1 } }

\* default values; DefaultNone is Python's None
DefaultNone == "None"

\* the default the server of src/crawlab/mcp/servers/server.py computes
DefaultNew(ps) ==
    IF ps.required THEN DefaultNone
    ELSE CASE ps.type = "string" -> "''"
           [] ps.type = "array" -> "[]"
           [] ps.type = "object" -> "{}"
           [] ps.type = "boolean" -> "False"
           [] ps.type \in {"integer", "number"} -> "0"
           [] OTHER -> DefaultNone

\* the default the server of src/server.py computes
DefaultLegacy(ps) ==
    IF ps.required THEN DefaultNone
    ELSE CASE ps.type = "string" -> "''"
           [] ps.type = "array" -> "[]"
           [] ps.type = "object" -> "{}"
           [] OTHER -> DefaultNone

DefaultFor(variant, ps) ==
    IF variant = "new" THEN DefaultNew(ps) ELSE DefaultLegacy(ps)

\* d[key] = value on a dict kept as a sequence of entries in insertion order
DictSet(d, key, value) ==
    IF \E k \in 1..Len(d) : d[k].key = key
    THEN [k \in 1..Len(d) |-> IF d[k].key = key THEN [key |-> key, value |-> value] ELSE d[k]]
    ELSE Append(d, [key |-> key, value |-> value])

DictHas(d, key) == \E k \in 1..Len(d) : d[k].key = key

DictGet(d, key) == d[CHOOSE k \in 1..Len(d) : d[k].key = key].value

\* the elements of a list
Range(q) == { q[k] : k \in 1..Len(q) }

\* param_dict of create_mcp_server: the parameters, then the body properties
RECURSIVE AddParams(_, _, _)
AddParams(d, l, variant) ==
    IF l = <<>> THEN d
    ELSE AddParams(
            DictSet(d, Head(l).name,
                    [type |-> Head(l).type, default |-> DefaultFor(variant, Head(l))]),
            Tail(l), variant)

CreateParamDict(variant, op) ==
    AddParams(AddParams(<<>>, op.parameters, variant), op.properties, variant)

\* name.lstrip("_")
RECURSIVE LStripUnderscore(_)
LStripUnderscore(n) ==
    IF n # <<>> /\ Head(n) = "_" THEN LStripUnderscore(Tail(n)) ELSE n

NeedsSafeName(n) ==
    n \in PythonKeywords \/ n = NameId \/ (n # <<>> /\ Head(n) = "_")

\* the while loop that makes a rewritten name unique
RECURSIVE Uniquify(_, _, _)
Uniquify(original_safe_name, suffix, used) ==
    LET candidate == IF suffix = 0 THEN original_safe_name
                     ELSE original_safe_name \o <<"_", ToString(suffix)>>
    IN IF candidate \in used THEN Uniquify(original_safe_name, suffix + 1, used)
       ELSE candidate

\* safe_param_name for param_name, given the names used so far
SafeName(param_name, used) ==
    IF NeedsSafeName(param_name)
    THEN Uniquify(<<"param", "_">> \o LStripUnderscore(param_name), 0, used)
    ELSE param_name

\* the first loop of create_tool_function over param_dict.items()
RECURSIVE ProcessParams(_, _)
ProcessParams(d, acc) ==
    IF d = <<>> THEN acc
    ELSE LET param_name == Head(d).key
             default_val == Head(d).value.default
             safe == SafeName(param_name, acc.used_param_names)
         IN ProcessParams(Tail(d),
              [required_params |->
                  IF default_val = DefaultNone
                  THEN Append(acc.required_params, safe) ELSE acc.required_params,
               optional_params |->
                  IF default_val = DefaultNone THEN acc.optional_params
                  ELSE Append(acc.optional_params, [name |-> safe, default |-> default_val]),
               param_mapping |->
                  IF NeedsSafeName(param_name)
                  THEN DictSet(acc.param_mapping, safe, param_name)
                  ELSE acc.param_mapping,
               used_param_names |-> acc.used_param_names \cup {safe}])

\* the names of the signature: required parameters, then optional ones
SignatureNames(t) ==
    t.required_params \o [k \in 1..Len(t.optional_params) |-> t.optional_params[k].name]

\* inspect.Signature refuses two parameters of one name (ValueError)
SignatureRaises(names) ==
    \E a, b \in 1..Len(names) : a # b /\ names[a] = names[b]

\* create_tool_function(tool_name, method, path, param_dict)
CreateToolFunction(method, path, d) ==
    LET t == ProcessParams(d, [required_params |-> <<>>, optional_params |-> <<>>,
                               param_mapping |-> <<>>, used_param_names |-> {}])
    IN [method |-> method,
        path |-> path,
        required_params |-> t.required_params,
        optional_params |-> t.optional_params,
        param_mapping |-> t.param_mapping,
        created |-> ~SignatureRaises(SignatureNames(t))]

\* the wire name of the signature entry safe: param_mapping.get(key, key)
WireName(t, safe) ==
    IF DictHas(t.param_mapping, safe) THEN DictGet(t.param_mapping, safe) ELSE safe

\* the values a call supplies: a plain text for the signature entry named
\* safe, or the text "{n}"
ValueOf(safe) == <<"v", "=">> \o safe
BraceValue(n) == <<"{">> \o n \o <<"}">>
IsBrace(v) == Head(v) = "{"
BraceName(v) == SubSeq(v, 2, Len(v) - 1)

\* str(value) as it reads inside a path: the text "{n}" is a placeholder
PathTextOf(v) == IF IsBrace(v) THEN Placeholder(BraceName(v)) ELSE ValueText(v)

\* a call of the synthesized function: the first npos signature entries are
\* given positionally, the entries of the set named by keyword; with brace
\* the value of the first entry is the text "{wire name of the second}"
CallsOf(t) ==
    LET names == SignatureNames(t)
        val(n, brace) == IF brace /\ Len(names) >= 2 /\ n = names[1]
                         THEN BraceValue(WireName(t, names[2])) ELSE ValueOf(n)
    IN
    { [args |-> [k \in 1..npos |-> val(names[k], brace)],
       kwargs |-> LET rest == SubSeq(names, npos + 1, Len(names))
                      picked == SelectSeq(rest, LAMBDA n : n \in chosen)
                  IN [k \in 1..Len(picked) |->
                        [key |-> picked[k], value |-> val(picked[k], brace)]]] :
        npos \in { n \in 0..1 : n <= Len(names) },
        chosen \in SUBSET { names[k] : k \in 1..Len(names) },
        brace \in BOOLEAN }

\* param_values of wrapper: the positional arguments, then kwargs
RECURSIVE BindPositional(_, _, _, _)
BindPositional(t, args, k, d) ==
    IF k > Len(args) THEN d
    ELSE IF k <= Len(t.required_params)
    THEN BindPositional(t, args, k + 1, DictSet(d, t.required_params[k], args[k]))
    ELSE IF k <= Len(t.required_params) + Len(t.optional_params)
    THEN BindPositional(t, args, k + 1,
            DictSet(d, t.optional_params[k - Len(t.required_params)].name, args[k]))
    ELSE BindPositional(t, args, k + 1, d)

RECURSIVE DictUpdate(_, _)
DictUpdate(d, e) ==
    IF e = <<>> THEN d ELSE DictUpdate(DictSet(d, Head(e).key, Head(e).value), Tail(e))

ParamValues(t, c) == DictUpdate(BindPositional(t, c.args, 1, <<>>), c.kwargs)

\* "{" + name + "}" in endpoint
HasPlaceholder(endpoint, name) ==
    \E k \in 1..Len(endpoint) : endpoint[k] = Placeholder(name)

\* endpoint.replace("{" + name + "}", str(value))
ReplacePlaceholder(endpoint, name, value) ==
    [k \in 1..Len(endpoint) |->
        IF endpoint[k] = Placeholder(name) THEN PathTextOf(value) ELSE endpoint[k]]

\* endpoint.lstrip("/")
RECURSIVE LStripSlash(_)
LStripSlash(endpoint) ==
    IF endpoint # <<>> /\ Head(endpoint) = Slash THEN LStripSlash(Tail(endpoint))
    ELSE endpoint

\* RouteParams that ignores param_mapping: the safe name goes on the wire
RECURSIVE RouteParamsNoMapping(_, _, _)
RouteParamsNoMapping(t, pv, acc) ==
    IF pv = <<>> THEN acc
    ELSE LET orig_key == Head(pv).key
             value == Head(pv).value
         IN RouteParamsNoMapping(t, Tail(pv),
              IF HasPlaceholder(acc.endpoint, orig_key)
              THEN [acc EXCEPT !.endpoint = ReplacePlaceholder(acc.endpoint, orig_key, value)]
              ELSE IF t.method \in {"get", "delete"}
              THEN [acc EXCEPT !.query_params = DictSet(acc.query_params, orig_key, value)]
              ELSE [acc EXCEPT !.body_data = DictSet(acc.body_data, orig_key, value)])

\* the loop of wrapper over param_values.items()
RECURSIVE RouteParams(_, _, _)
RouteParams(t, pv, acc) ==
    IF pv = <<>> THEN acc
    ELSE LET key == Head(pv).key
             value == Head(pv).value
             orig_key == IF DictHas(t.param_mapping, key)
                         THEN DictGet(t.param_mapping, key) ELSE key
         IN RouteParams(t, Tail(pv),
              IF HasPlaceholder(acc.endpoint, orig_key)
              THEN [acc EXCEPT !.endpoint = ReplacePlaceholder(acc.endpoint, orig_key, value)]
              ELSE IF t.method \in {"get", "delete"}
              THEN [acc EXCEPT !.query_params = DictSet(acc.query_params, orig_key, value)]
              ELSE [acc EXCEPT !.body_data = DictSet(acc.body_data, orig_key, value)])

\* the request wrapper hands to api_request; an empty dict is passed as None,
\* which is the empty sequence here; error is the exception wrapper raises
\* before the request ("" when it raises none)
Wrapper(t, c) ==
    LET r == RouteParams(t, ParamValues(t, c),
                 [endpoint |-> t.path, query_params |-> <<>>, body_data |-> <<>>])
    IN [sent |-> TRUE,
        error |-> "",
        method |-> Upper(t.method),
        endpoint |-> LStripSlash(r.endpoint),
        params |-> r.query_params,
        data |-> r.body_data]

\* the decoded JSON bodies of the downstream responses: dicts, with and
\* without a data field
KeyData == <<"data">>
BodyWithData ==
    <<[key |-> KeyData, value |-> <<[key |-> <<"id">>, value |-> <<"7">>]>>],
      [key |-> <<"total">>, value |-> <<"1">>]>>
BodyNoData == <<[key |-> <<"error">>, value |-> <<"not found">>]>>
Bodies == { BodyWithData, BodyNoData }

\* api_request(...).get("data", {}): the empty dict is the empty sequence
Returned(b) == IF DictHas(b, KeyData) THEN DictGet(b, KeyData) ELSE <<>>

NoRequest ==
    [sent |-> FALSE, error |-> "", method |-> "", endpoint |-> <<>>,
     params |-> <<>>, data |-> <<>>]

NoOperation == OperationOf("get", PathPlain, <<>>)
NoTool == CreateToolFunction("get", PathPlain, <<>>)
NoCall == [args |-> <<>>, kwargs |-> <<>>]

\* ---------------------------------------------------------------- state
VARIABLES
    pc,                \* where the client is: see Init and the actions
    tags,              \* self.tags
    tools,             \* self.tools, the advertised tools in order
    has_tool_support,  \* self.llm_provider.has_tool_support()
    intent,            \* the result of identify_user_intent
    available_tools,   \* tools argument of the initial completion call
    tool_choice,       \* tool_choice argument of the initial completion call
    messages,          \* the conversation
    final_text,        \* the fragments of the answer
    response_message,  \* message of the initial completion response
    response,          \* message of the latest completion response
    i,                 \* index of the tool call the loop is at (1-based)
    completions,       \* history: the completion calls issued, in order
    invoked,           \* history: the calls made on session.call_tool, in order
    returned,          \* what process_query handed to its caller
    responses,         \* history: the completion responses received, in order
    tpc,               \* where the server is with the operation: see InitTool
    variant,           \* which server registers: "new" (servers/server.py) or "legacy"
    operation,         \* the operation of the API description
    param_dict,        \* param_dict of create_mcp_server
    tool,              \* what create_tool_function built
    call,              \* the latest call of the synthesized function
    request,           \* what that call handed to api_request
    body,              \* the decoded JSON body api_request returned to that call
    result,            \* what that call returned
    rpc,               \* concurrent runs: where each process_query task is
    ri,                \* concurrent runs: index of the tool call each task is at
    rn,                \* concurrent runs: number of tool calls of each task's turn
    spc,               \* tag catalogue: where the server is, see InitTags
    resolved_spec,     \* tag catalogue: the API description
    registered_tools,  \* tag catalogue: the names the tools are registered under
    tags_list,         \* tag catalogue: the "tags" of the latest list_tags result
    ppc,               \* planning client: where the caller is, see InitPlan
    attrs,             \* planning client: the attribute names of the MCPClient instance
    task_planner,      \* planning client: the value the caller gave task_planner
    llm,               \* planning client: how the provider's chat_completion answers
    plan_result        \* planning client: outcome of the call of _should_use_planning

vars == <<pc, tags, tools, has_tool_support, intent, available_tools, tool_choice,
          messages, final_text, response_message, response, i, completions,
          invoked, returned, responses,
          tpc, variant, operation, param_dict, tool, call, request, body, result,
          rpc, ri, rn, spc, resolved_spec, registered_tools, tags_list,
          ppc, attrs, task_planner, llm, plan_result>>

toolVars == <<tpc, variant, operation, param_dict, tool, call, request, body, result>>

\* number of process_query tasks that share the session
NumRuns == 2
Runs == 1..NumRuns

runVars == <<rpc, ri, rn>>

\* no concurrent runs
RunsOff ==
    /\ rpc = [r \in Runs |-> "off"]
    /\ ri = [r \in Runs |-> 0]
    /\ rn = [r \in Runs |-> 0]

tagVars == <<spc, resolved_spec, registered_tools, tags_list>>

\* no API description loaded for the tag catalogue
TagsOff ==
    /\ spc = "off"
    /\ resolved_spec = [tags |-> <<>>, operations |-> <<>>]
    /\ registered_tools = <<>>
    /\ tags_list = <<>>

planVars == <<ppc, attrs, task_planner, llm, plan_result>>

\* no planning client
PlanOff ==
    /\ ppc = "off"
    /\ attrs = {}
    /\ task_planner = "unset"
    /\ llm = [raises |-> FALSE, content |-> <<>>]
    /\ plan_result = "none"

sideVars == <<tagVars, planVars>>

\* the variables of the other specifications of this module
otherVars == <<toolVars, runVars, sideVars>>

sessionVars == <<tags, tools, has_tool_support>>

\* a completion call as the backend sees it
Completion(kind, ts, choice, msgs) ==
    [kind |-> kind, tools |-> ts, tool_choice |-> choice, messages |-> msgs]

UserMessage == [role |-> "user", content |-> Str("query")]
SystemMessage == [role |-> "system", content |-> Str("classifier")]

AssistantMessage(m) ==
    [role |-> "assistant", content |-> m.content, tool_calls |-> m.tool_calls]

ToolMessage(id, content) ==
    [role |-> "tool", tool_call_id |-> id, content |-> content]

\* f"Error: {str(e)}"
ErrorContent(e) == <<"str", "Error: ", e>>

\* f"[Error executing tool {name}: {str(e)}]"
ErrorFragment(name, e) == <<"str", "[Error executing tool ">> \o name \o <<": ", e, "]">>

\* f"[Calling tool {function_name} with args {function_args}]"
CallingFragment(name) == <<"str", "[Calling tool ">> \o name \o <<" with args ", "{}", "]">>

\* "\n".join(final_text): TypeError when a fragment is None
JoinRaisesText(frags) == \E j \in 1..Len(frags) : IsNone(frags[j])

RECURSIVE JoinText(_)
JoinText(frags) ==
    IF frags = <<>> THEN <<"str">>
    ELSE IF Len(frags) = 1 THEN frags[1]
    ELSE frags[1] \o <<"\n">> \o Tail(JoinText(Tail(frags)))

\* the comprehension [tool for tool in self.tools if tool.name in parsed]
RECURSIVE FilterTools(_, _)
FilterTools(ts, parsed) ==
    IF ts = <<>> THEN [raised |-> FALSE, list |-> <<>>]
    ELSE LET in == PyIn(Head(ts), parsed) IN
         IF in = "TypeError" THEN [raised |-> TRUE, list |-> <<>>]
         ELSE LET rest == FilterTools(Tail(ts), parsed) IN
              IF rest.raised THEN rest
              ELSE [raised |-> FALSE,
                    list |-> IF in = "true" THEN <<Head(ts)>> \o rest.list ELSE rest.list]

\* SelectTools without the test for the Generic token: every advertised tool
\* is offered
SelectToolsNoGeneric(in, support, ts) ==
    IF ~support
    THEN [raised |-> FALSE, tools |-> ToolsNone, choice |-> "none"]
    ELSE LET parsed == JsonLoads(in) IN
         IF ~parsed.ok
         THEN [raised |-> FALSE, tools |-> ToolsList(ts), choice |-> "auto"]
         ELSE LET f == FilterTools(ts, parsed.val) IN
              IF f.raised
              THEN [raised |-> TRUE, tools |-> ToolsNone, choice |-> "none"]
              ELSE [raised |-> FALSE, tools |-> ToolsList(f.list), choice |-> "auto"]

\* SelectTools without the except clause: a JSONDecodeError leaves process_query
SelectToolsNoCatch(in, support, ts) ==
    IF in = GenericText \/ ~support
    THEN [raised |-> FALSE, tools |-> ToolsNone, choice |-> "none"]
    ELSE LET parsed == JsonLoads(in) IN
         IF ~parsed.ok
         THEN [raised |-> TRUE, tools |-> ToolsNone, choice |-> "none"]
         ELSE LET f == FilterTools(ts, parsed.val) IN
              IF f.raised
              THEN [raised |-> TRUE, tools |-> ToolsNone, choice |-> "none"]
              ELSE [raised |-> FALSE, tools |-> ToolsList(f.list), choice |-> "auto"]

\* SelectTools without the test of has_tool_support
SelectToolsIgnoreSupport(in, support, ts) ==
    IF in = GenericText
    THEN [raised |-> FALSE, tools |-> ToolsNone, choice |-> "none"]
    ELSE LET parsed == JsonLoads(in) IN
         IF ~parsed.ok
         THEN [raised |-> FALSE, tools |-> ToolsNone, choice |-> "none"]
         ELSE LET f == FilterTools(ts, parsed.val) IN
              IF f.raised
              THEN [raised |-> TRUE, tools |-> ToolsNone, choice |-> "none"]
              ELSE [raised |-> FALSE, tools |-> ToolsList(f.list), choice |-> "auto"]

\* the branch of process_query that chooses available_tools and tool_choice
SelectTools(in, support, ts) ==
    IF in = GenericText \/ ~support
    THEN [raised |-> FALSE, tools |-> ToolsNone, choice |-> "none"]
    ELSE LET parsed == JsonLoads(in) IN
         IF ~parsed.ok
         THEN [raised |-> FALSE, tools |-> ToolsNone, choice |-> "none"]
         ELSE LET f == FilterTools(ts, parsed.val) IN
              IF f.raised
              THEN [raised |-> TRUE, tools |-> ToolsNone, choice |-> "none"]
              ELSE [raised |-> FALSE, tools |-> ToolsList(f.list), choice |-> "auto"]

Init ==
    /\ pc = "new"
    /\ tags = <<>>
    /\ tools = <<>>
    /\ has_tool_support \in BOOLEAN
    /\ intent = <<>>
    /\ available_tools = ToolsNone
    /\ tool_choice = "none"
    /\ messages = <<>>
    /\ final_text = <<>>
    /\ response_message = NoResponse
    /\ response = NoResponse
    /\ i = 0
    /\ completions = <<>>
    /\ invoked = <<>>
    /\ returned = None
    /\ responses = <<>>
    /\ tpc = "off"
    /\ variant = "new"
    /\ operation = NoOperation
    /\ param_dict = <<>>
    /\ tool = NoTool
    /\ call = NoCall
    /\ request = NoRequest
    /\ body = <<>>
    /\ result = <<>>
    /\ RunsOff
    /\ TagsOff
    /\ PlanOff

\* connect_to_server: store the advertised tools and the tags
ConnectToServer ==
    /\ pc = "new"
    /\ \E ts \in ToolLists, r \in TagsResponses :
         /\ tools' = ts
         /\ tags' = ParseTags(r)
    /\ pc' = "connected"
    /\ UNCHANGED <<otherVars, responses, has_tool_support, intent, available_tools, tool_choice, messages,
                   final_text, response_message, response, i, completions, invoked,
                   returned>>

\* process_query up to the classification call of identify_user_intent; the
\* system message is built before the try block
StartQuery ==
    /\ pc = "connected"
    /\ messages' = <<UserMessage>>
    /\ IF JoinRaises(tags)
       THEN /\ pc' = "raised"
            /\ returned' = Str("TypeError")
            /\ UNCHANGED completions
       ELSE /\ pc' = "triage"
            /\ completions' = Append(completions,
                   Completion("triage", ToolsNone, "unset", <<SystemMessage, UserMessage>>))
            /\ UNCHANGED returned
    /\ UNCHANGED <<otherVars, responses, sessionVars, intent, available_tools, tool_choice, final_text,
                   response_message, response, i, invoked>>

\* the rest of identify_user_intent, the choice of the tools and the issue of
\* the initial completion call, for the intent in
Route(in) ==
    LET sel == SelectTools(in, has_tool_support, tools) IN
    /\ intent' = in
    /\ IF sel.raised
       THEN /\ pc' = "raised"
            /\ returned' = Str("TypeError")
            /\ UNCHANGED <<available_tools, tool_choice, completions>>
       ELSE /\ pc' = "initial"
            /\ available_tools' = sel.tools
            /\ tool_choice' = sel.choice
            /\ completions' = Append(completions,
                   Completion("initial", sel.tools, sel.choice, messages))
            /\ UNCHANGED returned
    /\ UNCHANGED <<otherVars, responses, sessionVars, messages, final_text, response_message, response, i,
                   invoked>>

\* the classification call answers with a text
TriageReturn ==
    /\ pc = "triage"
    /\ \E text \in IntentTexts : Route(Strip(text))

\* the classification call raises, or its answer has no text: the except
\* branch of identify_user_intent answers Generic
TriageRaise ==
    /\ pc = "triage"
    /\ Route(GenericText)

\* the initial completion call raises: nothing in process_query catches it
InitialRaise ==
    /\ pc = "initial"
    /\ pc' = "raised"
    /\ returned' = Str("LLMError")
    /\ UNCHANGED <<otherVars, responses, sessionVars, intent, available_tools, tool_choice, messages,
                   final_text, response_message, response, i, completions, invoked>>

\* the initial completion call answers
InitialReturn ==
    /\ pc = "initial"
    /\ \E r \in InitialResponses :
         /\ response' = r
         /\ response_message' = r
         /\ responses' = Append(responses, r)
         /\ final_text' = <<IF IsNone(r.content) THEN <<"str", "">> ELSE r.content>>
    /\ i' = 1
    /\ pc' = "loop"
    /\ UNCHANGED <<otherVars, sessionVars, intent, available_tools, tool_choice, messages,
                   completions, invoked, returned>>

tool_call == response_message.tool_calls[i]

\* an except branch that leaves the loop: the remaining calls are dropped
ExceptBreak(e) ==
    /\ final_text' = Append(final_text, ErrorFragment(tool_call.function.name, e))
    /\ messages' = Append(messages, ToolMessage(tool_call.id, ErrorContent(e)))
    /\ i' = Len(response_message.tool_calls) + 1
    /\ pc' = "loop"

\* the except branch of the loop body for the exception text e
Except(e) ==
    /\ final_text' = Append(final_text, ErrorFragment(tool_call.function.name, e))
    /\ messages' = Append(messages, ToolMessage(tool_call.id, ErrorContent(e)))
    /\ i' = i + 1
    /\ pc' = "loop"

\* head of the loop over the tool calls: leave the loop and return the joined
\* text, or decode the arguments and call the tool
LoopStep ==
    /\ pc = "loop"
    /\ IF i > Len(response_message.tool_calls)
       THEN /\ IF JoinRaisesText(final_text)
               THEN pc' = "raised" /\ returned' = Str("TypeError")
               ELSE pc' = "done" /\ returned' = JoinText(final_text)
            /\ UNCHANGED <<messages, final_text, i, invoked>>
       ELSE IF ~JsonLoads(tool_call.function.arguments).ok
       THEN /\ Except("JSONDecodeError")
            /\ UNCHANGED <<invoked, returned>>
       ELSE /\ pc' = "calling"
            /\ invoked' = Append(invoked, tool_call)
            /\ UNCHANGED <<messages, final_text, i, returned>>
    /\ UNCHANGED <<otherVars, responses, sessionVars, intent, available_tools, tool_choice,
                   response_message, response, completions>>

\* session.call_tool returns: record the result and issue the follow-up call
CallToolReturn ==
    /\ pc = "calling"
    /\ final_text' = Append(final_text, CallingFragment(tool_call.function.name))
    /\ messages' = messages \o <<AssistantMessage(response_message),
                                 ToolMessage(tool_call.id, Str("result"))>>
    /\ completions' = Append(completions,
           Completion("followup", ToolsNone, "unset", messages'))
    /\ pc' = "followup"
    /\ UNCHANGED <<otherVars, responses, sessionVars, intent, available_tools, tool_choice,
                   response_message, response, i, invoked, returned>>

\* a call_tool failure that is retried once before the except branch
CallToolRaiseRetry ==
    /\ pc = "calling"
    /\ IF Len(SelectSeq(invoked, LAMBDA c : c = tool_call)) < 2
       THEN /\ invoked' = Append(invoked, tool_call)
            /\ UNCHANGED <<pc, final_text, messages, i>>
       ELSE /\ Except("404")
            /\ UNCHANGED invoked
    /\ UNCHANGED <<otherVars, responses, sessionVars, intent, available_tools, tool_choice,
                   response_message, response, completions, returned>>

\* session.call_tool raises
CallToolRaise ==
    /\ pc = "calling"
    /\ Except("404")
    /\ UNCHANGED <<otherVars, responses, sessionVars, intent, available_tools, tool_choice,
                   response_message, response, completions, invoked, returned>>

\* a follow-up answer whose content is put in front of the fragments
FollowUpReturnPrepend ==
    /\ pc = "followup"
    /\ \E r \in FollowUpResponses :
         /\ response' = r
         /\ responses' = Append(responses, r)
         /\ final_text' = <<r.content>> \o final_text
    /\ i' = i + 1
    /\ pc' = "loop"
    /\ UNCHANGED <<otherVars, sessionVars, intent, available_tools, tool_choice, messages,
                   response_message, completions, invoked, returned>>

\* the follow-up completion call answers: only its content is used
FollowUpReturn ==
    /\ pc = "followup"
    /\ \E r \in FollowUpResponses :
         /\ response' = r
         /\ responses' = Append(responses, r)
         /\ final_text' = Append(final_text, r.content)
    /\ i' = i + 1
    /\ pc' = "loop"
    /\ UNCHANGED <<otherVars, sessionVars, intent, available_tools, tool_choice, messages,
                   response_message, completions, invoked, returned>>

\* the follow-up completion call raises
FollowUpRaise ==
    /\ pc = "followup"
    /\ Except("LLMError")
    /\ UNCHANGED <<otherVars, responses, sessionVars, intent, available_tools, tool_choice,
                   response_message, response, completions, invoked, returned>>

Next ==
    \/ ConnectToServer
    \/ StartQuery
    \/ TriageReturn
    \/ TriageRaise
    \/ InitialRaise
    \/ InitialReturn
    \/ LoopStep
    \/ CallToolReturn
    \/ CallToolRaise
    \/ FollowUpReturn
    \/ FollowUpRaise

Spec == Init /\ [][Next]_vars

\* every backend and session call returns or raises, and the client goes on
\* from there
SpecLive == Spec /\ WF_vars(Next)



\* ------------------------------------------------ the tool synthesizer
clientVars == <<pc, tags, tools, has_tool_support, intent, available_tools, tool_choice,
                messages, final_text, response_message, response, i, completions,
                invoked, returned, responses>>

\* a server that has parsed one operation of an API description
InitTool ==
    /\ pc = "new"
    /\ tags = <<>>
    /\ tools = <<>>
    /\ has_tool_support = FALSE
    /\ intent = <<>>
    /\ available_tools = ToolsNone
    /\ tool_choice = "none"
    /\ messages = <<>>
    /\ final_text = <<>>
    /\ response_message = NoResponse
    /\ response = NoResponse
    /\ i = 0
    /\ completions = <<>>
    /\ invoked = <<>>
    /\ returned = None
    /\ responses = <<>>
    /\ tpc = "parsed"
    /\ variant \in {"new", "legacy"}
    /\ operation \in Operations
    /\ param_dict = <<>>
    /\ tool = NoTool
    /\ call = NoCall
    /\ request = NoRequest
    /\ body = <<>>
    /\ result = <<>>
    /\ RunsOff
    /\ TagsOff
    /\ PlanOff

\* the body of the registration loop of create_mcp_server for the operation
RegisterTool ==
    /\ tpc = "parsed"
    /\ param_dict' = CreateParamDict(variant, operation)
    /\ tool' = CreateToolFunction(operation.method, operation.path, param_dict')
    /\ tpc' = IF tool'.created THEN "registered" ELSE "failed"
    /\ UNCHANGED <<clientVars, sideVars, runVars, variant, operation, call, request, body, result>>

\* one call of the synthesized function
InvokeTool ==
    /\ tpc = "registered"
    /\ \E c \in CallsOf(tool) :
         /\ call' = c
         /\ request' = Wrapper(tool, c)
    /\ \E b \in Bodies :
         /\ body' = b
         /\ result' = Returned(b)
    /\ tpc' = "invoked"
    /\ UNCHANGED <<clientVars, sideVars, runVars, variant, operation, param_dict, tool>>

NextTool ==
    \/ RegisterTool
    \/ InvokeTool

SpecTool == InitTool /\ [][NextTool]_vars


\* ------------------------------- concurrent runs on one client session
\* Two or more process_query tasks of one MCPClient, each at the loop over the
\* tool calls of its initial response; every await is a point where another
\* task can run. Only the position of each task is kept.

\* a client with no query and no operation
ClientOff ==
    /\ pc = "new"
    /\ tags = <<>>
    /\ tools = <<>>
    /\ has_tool_support = FALSE
    /\ intent = <<>>
    /\ available_tools = ToolsNone
    /\ tool_choice = "none"
    /\ messages = <<>>
    /\ final_text = <<>>
    /\ response_message = NoResponse
    /\ response = NoResponse
    /\ i = 0
    /\ completions = <<>>
    /\ invoked = <<>>
    /\ returned = None
    /\ responses = <<>>

ToolOff ==
    /\ tpc = "off"
    /\ variant = "new"
    /\ operation = NoOperation
    /\ param_dict = <<>>
    /\ tool = NoTool
    /\ call = NoCall
    /\ request = NoRequest
    /\ body = <<>>
    /\ result = <<>>

\* every task waits for its initial completion response
InitRuns ==
    /\ ClientOff
    /\ ToolOff
    /\ TagsOff
    /\ PlanOff
    /\ rpc = [r \in Runs |-> "initial"]
    /\ ri = [r \in Runs |-> 0]
    /\ rn = [r \in Runs |-> 0]

\* the runs with a call_tool request outstanding on the session
Outstanding == { r \in Runs : rpc[r] = "calling" }

\* the initial completion call of task r answers with n tool calls
RunInitialReturn(r) ==
    /\ rpc[r] = "initial"
    /\ \E n \in 0..MaxCalls : rn' = [rn EXCEPT ![r] = n]
    /\ ri' = [ri EXCEPT ![r] = 1]
    /\ rpc' = [rpc EXCEPT ![r] = "loop"]
    /\ UNCHANGED <<clientVars, sideVars, toolVars>>

\* head of the loop of task r: return, or await session.call_tool
RunLoopStep(r) ==
    /\ rpc[r] = "loop"
    /\ rpc' = [rpc EXCEPT ![r] = IF ri[r] > rn[r] THEN "done" ELSE "calling"]
    /\ UNCHANGED <<clientVars, sideVars, toolVars, ri, rn>>

\* the call_tool of task r returns: await the follow-up completion
RunCallToolReturn(r) ==
    /\ rpc[r] = "calling"
    /\ rpc' = [rpc EXCEPT ![r] = "followup"]
    /\ UNCHANGED <<clientVars, sideVars, toolVars, ri, rn>>

\* the call_tool of task r raises: the except branch, then the next call
RunCallToolRaise(r) ==
    /\ rpc[r] = "calling"
    /\ rpc' = [rpc EXCEPT ![r] = "loop"]
    /\ ri' = [ri EXCEPT ![r] = ri[r] + 1]
    /\ UNCHANGED <<clientVars, sideVars, toolVars, rn>>

\* the follow-up completion of task r answers or raises: the next call
RunFollowUpDone(r) ==
    /\ rpc[r] = "followup"
    /\ rpc' = [rpc EXCEPT ![r] = "loop"]
    /\ ri' = [ri EXCEPT ![r] = ri[r] + 1]
    /\ UNCHANGED <<clientVars, sideVars, toolVars, rn>>

NextRuns ==
    \E r \in Runs :
        \/ RunInitialReturn(r)
        \/ RunLoopStep(r)
        \/ RunCallToolReturn(r)
        \/ RunCallToolRaise(r)
        \/ RunFollowUpDone(r)

SpecRuns == InitRuns /\ [][NextRuns]_vars


\* ------------------------------------------------- the tag catalogue
\* create_mcp_server registers one tool per operation of the API description
\* and the list_tags tool, which groups the operations by tag.

\* largest number of operations of a description
MaxOps == 2

TagSpiders == <<"spiders">>
TagTasks == <<"tasks">>
TagNames == { TagSpiders, TagTasks }

\* the top-level tag declarations of a description, by name
TopLevelTags == { <<>>, <<TagSpiders>>, <<TagTasks>>, <<TagSpiders, TagTasks>> }

\* the tags of an operation; the last one repeats a tag
OperationTags ==
    { <<>>, <<TagSpiders>>, <<TagTasks>>, <<TagSpiders, TagTasks>>,
      <<TagSpiders, TagSpiders>> }

\* operationId of the k-th operation
OpId(k) == <<"op", ToString(k)>>

\* the keys of a path item: an HTTP verb, or another key such as options
PathItemKeys == { "get", "options" }

\* method.lower() in ["get", "post", "put", "delete", "patch"]
ValidMethod(method) == method \in { "get", "post", "put", "delete", "patch" }

\* the operations a description can have as its k-th: operationId is the
\* empty sequence when the operation has none
OperationsAt(k) ==
    { [operationId |-> id, tags |-> ts, method |-> m] :
        id \in { <<>>, OpId(k) }, ts \in OperationTags, m \in PathItemKeys }

RECURSIVE OperationLists(_)
OperationLists(n) ==
    IF n = 0 THEN { <<>> }
    ELSE LET shorter == OperationLists(n - 1) IN
         shorter \cup
         { Append(l, op) : l \in { x \in shorter : Len(x) = n - 1 }, op \in OperationsAt(n) }

Descriptions ==
    { [tags |-> tl, operations |-> ops] :
        tl \in TopLevelTags, ops \in OperationLists(MaxOps) }

\* the name a server registers the tool of an operation under
ToolName(v, op) ==
    IF v = "new" THEN op.operationId
    ELSE op.tags[1] \o <<"/">> \o op.operationId

\* whether the registration loop reaches add_tool for the operation
IsRegistered(v, op) ==
    /\ ValidMethod(op.method)
    /\ op.operationId # <<>>
    /\ (v = "legacy" => op.tags # <<>>)

\* registered_tools after the registration loop of create_mcp_server
RECURSIVE RegisterAll(_, _, _)
RegisterAll(v, ops, acc) ==
    IF ops = <<>> THEN acc
    ELSE RegisterAll(v, Tail(ops),
            IF IsRegistered(v, Head(ops)) /\ ToolName(v, Head(ops)) \notin Range(acc)
            THEN Append(acc, ToolName(v, Head(ops))) ELSE acc)

\* tags_dict from the top-level tag declarations
RECURSIVE FromTopLevel(_, _)
FromTopLevel(tl, d) ==
    IF tl = <<>> THEN d ELSE FromTopLevel(Tail(tl), DictSet(d, Head(tl), <<>>))

\* tags_dict[tag] = {...} for each tag of the operation not yet in tags_dict
RECURSIVE AddTags(_, _)
AddTags(ts, d) ==
    IF ts = <<>> THEN d
    ELSE AddTags(Tail(ts), IF DictHas(d, Head(ts)) THEN d ELSE DictSet(d, Head(ts), <<>>))

\* tags_dict initialised from the operations
RECURSIVE FromOperations(_, _)
FromOperations(ops, d) ==
    IF ops = <<>> THEN d
    ELSE FromOperations(Tail(ops),
            IF ValidMethod(Head(ops).method) THEN AddTags(Head(ops).tags, d) ELSE d)

\* tags_dict[tag]["tools"].append(tool_info) for each tag of the operation
\* that is in tags_dict
RECURSIVE AppendTool(_, _, _)
AppendTool(ts, name, d) ==
    IF ts = <<>> THEN d
    ELSE AppendTool(Tail(ts), name,
            IF DictHas(d, Head(ts))
            THEN DictSet(d, Head(ts), Append(DictGet(d, Head(ts)), name))
            ELSE d)

\* the loop of list_tags that populates the tools of each tag
RECURSIVE Populate(_, _)
Populate(ops, d) ==
    IF ops = <<>> THEN d
    ELSE Populate(Tail(ops),
            IF ValidMethod(Head(ops).method) /\ Head(ops).operationId # <<>>
            THEN AppendTool(Head(ops).tags, Head(ops).operationId, d)
            ELSE d)

\* list_tags: the "tags" of its result, one entry per tag with the names of
\* its tools
ListTagsResult(rs) ==
    LET declared == FromTopLevel(rs.tags, <<>>)
        tags_dict == IF declared = <<>> THEN FromOperations(rs.operations, <<>>)
                     ELSE declared
        filled == Populate(rs.operations, tags_dict)
    IN [k \in 1..Len(filled) |-> [name |-> filled[k].key, tools |-> filled[k].value]]

\* a server that has loaded an API description
InitTags ==
    /\ ClientOff
    /\ tpc = "off"
    /\ variant \in {"new", "legacy"}
    /\ operation = NoOperation
    /\ param_dict = <<>>
    /\ tool = NoTool
    /\ call = NoCall
    /\ request = NoRequest
    /\ body = <<>>
    /\ result = <<>>
    /\ RunsOff
    /\ PlanOff
    /\ spc = "loaded"
    /\ resolved_spec \in Descriptions
    /\ registered_tools = <<>>
    /\ tags_list = <<>>

\* create_mcp_server: the registration loop over the operations
CreateMcpServer ==
    /\ spc = "loaded"
    /\ registered_tools' = RegisterAll(variant, resolved_spec.operations, <<>>)
    /\ spc' = "created"
    /\ UNCHANGED <<clientVars, toolVars, runVars, planVars, resolved_spec, tags_list>>

\* one call of the list_tags tool
ListTags ==
    /\ spc = "created"
    /\ tags_list' = ListTagsResult(resolved_spec)
    /\ spc' = "listed"
    /\ UNCHANGED <<clientVars, toolVars, runVars, planVars, resolved_spec, registered_tools>>

NextTags ==
    \/ CreateMcpServer
    \/ ListTags

SpecTags == InitTags /\ [][NextTags]_vars


\* --------------------------------------------- the planning client
\* MCPClient of crawlab_mcp/clients/client.py as its callers use it: they set
\* task_planner on the instance and call _should_use_planning(query).

\* the attributes __init__ sets on the instance
InitAttrs == { "session", "tools", "tool_tags", "connection_type", "api_key" }

\* the attributes of the class
ClassAttrs == { "__init__", "connect_to_server" }

\* getattr(client, name) finds the attribute
HasAttr(a, name) == name \in a \cup ClassAttrs

\* the contents the provider's response can have: a word with whitespace
\* before and after it
Pads == { <<>>, <<" ", " ">> }
Words == { "true", "false", "TRUE", "FALSE", "True", "yes", "" }
PlanContents == { lead \o <<w>> \o trail : lead \in Pads, w \in Words, trail \in Pads }

\* chat_completion raises, or answers with a content
LlmBehaviours ==
    { [raises |-> TRUE, content |-> <<>>] }
    \cup { [raises |-> FALSE, content |-> c] : c \in PlanContents }

\* a constructed MCPClient
InitPlan ==
    /\ ClientOff
    /\ ToolOff
    /\ RunsOff
    /\ TagsOff
    /\ ppc = "constructed"
    /\ attrs = InitAttrs
    /\ task_planner = "unset"
    /\ llm \in LlmBehaviours
    /\ plan_result = "none"

\* client.task_planner = None, or a TaskPlanner
SetTaskPlanner ==
    /\ ppc = "constructed"
    /\ task_planner = "unset"
    /\ \E p \in { "None", "planner" } : task_planner' = p
    /\ attrs' = attrs \cup { "task_planner" }
    /\ UNCHANGED <<clientVars, toolVars, runVars, tagVars, ppc, llm, plan_result>>

\* await client._should_use_planning(query): the attribute lookup comes
\* first, and the class has no such method
ShouldUsePlanning ==
    /\ ppc = "constructed"
    /\ ppc' = "called"
    /\ plan_result' = IF HasAttr(attrs, "_should_use_planning")
                      THEN "called" ELSE "AttributeError"
    /\ UNCHANGED <<clientVars, toolVars, runVars, tagVars, attrs, task_planner, llm>>

NextPlan ==
    \/ SetTaskPlanner
    \/ ShouldUsePlanning

SpecPlan == InitPlan /\ [][NextPlan]_vars

\* ======================================================================
\* Properties
\* ======================================================================

\* the classification call was issued and identify_user_intent has returned
TriageDone == Len(completions) >= 1 /\ pc # "triage"

\* the completion calls of one kind, in order
CompletionsOf(kind) == SelectSeq(completions, LAMBDA c : c.kind = kind)

\* the initial completion call was issued without tools
IssuedGeneric ==
    /\ Len(CompletionsOf("initial")) = 1
    /\ CompletionsOf("initial")[1].tools = ToolsNone
    /\ CompletionsOf("initial")[1].tool_choice = "none"

\* a tool-role message for the call id is in the conversation msgs
HasToolMessage(msgs, id) ==
    \E j \in 1..Len(msgs) : msgs[j].role = "tool" /\ msgs[j].tool_call_id = id

NumCalls == Len(response_message.tool_calls)

\* C1: for a turn that requests N >= 1 tool calls, exactly one follow-up
\* completion call is issued, and only after a tool message for every one of
\* the N calls is in the conversation.
C1_OneFollowUpAfterAllResults ==
    /\ \A j \in 1..Len(completions) :
          completions[j].kind = "followup" =>
             \A k \in 1..NumCalls :
                 HasToolMessage(completions[j].messages, response_message.tool_calls[k].id)
    /\ (pc = "done" /\ NumCalls >= 1) => Len(CompletionsOf("followup")) = 1

\* C2: the tool calls carried by a follow-up response are handled too, and
\* DONE is reached only after a completion response without tool calls.
C2_RepeatsWhileToolCalls ==
    pc = "done" =>
       /\ \A k \in 1..Len(response.tool_calls) :
             HasToolMessage(messages, response.tool_calls[k].id)
       /\ response.tool_calls = <<>>

\* C3: when session.call_tool raises for a tool call, a tool message with the
\* content "Error: <message>" and that call's id is appended and the loop goes
\* on with the next call; at the end of the run every call of the turn whose
\* arguments decode has been invoked.
C3_FailureRecordedTurnContinues ==
    /\ [][(pc = "calling" /\ pc' # "followup") =>
             /\ messages' = Append(messages, ToolMessage(tool_call.id, ErrorContent("404")))
             /\ pc' = "loop"
             /\ i' = i + 1]_vars
    /\ []((pc \in {"done", "raised"} /\ NumCalls >= 1) =>
             \A k \in 1..NumCalls :
                 JsonLoads(response_message.tool_calls[k].function.arguments).ok =>
                     \E j \in 1..Len(invoked) : invoked[j] = response_message.tool_calls[k])

\* the first call of a two-call turn failed and the second was still invoked
C3_Witness ==
    /\ pc = "done"
    /\ NumCalls = 2
    /\ \E j \in 1..Len(messages) :
          messages[j] = ToolMessage(response_message.tool_calls[1].id, ErrorContent("404"))
    /\ \E j \in 1..Len(invoked) : invoked[j] = response_message.tool_calls[2]

\* C4: when the triage answer is the token Generic, the initial completion
\* call is made with tools=None and tool_choice="none".
C4_GenericIntentNoTools ==
    (TriageDone /\ intent = GenericText) => IssuedGeneric

\* Generic was answered while the backend supports tools and tools exist
C4_Witness ==
    /\ pc = "initial"
    /\ intent = GenericText
    /\ has_tool_support
    /\ Len(tools) >= 1
    /\ IssuedGeneric

\* C5: when the triage answer does not decode as JSON, the query does not
\* fail at the choice of the tools and the initial completion call carries
\* tools=None and tool_choice="none".
C5_UnparseableIntentNoTools ==
    (TriageDone /\ intent # GenericText /\ ~JsonLoads(intent).ok) => IssuedGeneric

\* the truncated array [ "t" was answered to a client that could offer tools
C5_Witness ==
    /\ pc = "initial"
    /\ intent = <<LBrack, Quoted(<<"t">>)>>
    /\ has_tool_support
    /\ Len(tools) >= 1
    /\ IssuedGeneric

\* C6: when the triage answer is valid JSON but not an array, the query does
\* not fail and the initial completion call carries tools=None and
\* tool_choice="none".
C6_UnexpectedShapeNoTools ==
    (TriageDone /\ JsonLoads(intent).ok /\ JsonLoads(intent).val.k # "arr")
        => IssuedGeneric

\* C7: identify_user_intent never raises: for every stored tag catalogue a
\* started query gets to the classification call and past it.
C7_TriageNeverFatal ==
    pc \notin {"new", "connected"} => Len(completions) >= 1

\* C8: without tool support the initial completion call is made with
\* tools=None and tool_choice="none", whatever the triage answer is.
C8_NoToolSupportNoTools ==
    (TriageDone /\ ~has_tool_support) => IssuedGeneric

\* triage named an advertised tool, the backend has no tool support
C8_Witness ==
    /\ pc = "initial"
    /\ ~has_tool_support
    /\ intent = <<LBrack, Quoted(ToolA), RBrack>>
    /\ Len(tools) >= 1
    /\ IssuedGeneric

\* C9: on the GENERIC path exactly one completion call follows triage and no
\* tool is invoked on the session.
C9_GenericSingleCompletion ==
    (Len(CompletionsOf("initial")) = 1 /\ CompletionsOf("initial")[1].tool_choice = "none")
        => /\ invoked = <<>>
           /\ CompletionsOf("followup") = <<>>

\* C10: on the TOOLED path every tool offered to the model is an advertised
\* tool whose name is an element of the array that triage answered.
C10_OfferedSubsetOfIntent ==
    \A j \in 1..Len(completions) :
       (completions[j].kind = "initial" /\ completions[j].tool_choice = "auto") =>
          \A n \in 1..Len(completions[j].tools.list) :
             LET name == completions[j].tools.list[n]
                 parsed == JsonLoads(intent)
             IN /\ \E t \in 1..Len(tools) : tools[t] = name
                /\ parsed.ok
                /\ parsed.val.k = "arr"
                /\ \E e \in 1..Len(parsed.val.items) : parsed.val.items[e] = JStr(name)


\* the content of the completion responses of the run, in order; an initial
\* response without content counts as the empty text
ResponseContents ==
    [k \in 1..Len(responses) |->
        IF k = 1 /\ IsNone(responses[k].content) THEN <<"str", "">>
        ELSE responses[k].content]

\* a bracketed annotation of a tool call
IsAnnotation(f) == Len(f) >= 2 /\ f[2] \in {"[Calling tool ", "[Error executing tool "}

\* C11 as claimed: the returned text is made of the assistant content of the
\* completion responses of the run, in order, and of nothing else.
C11_ReturnedIsAssistantContent ==
    pc = "done" => returned = JoinText(ResponseContents)

\* C11 amended: the returned text is the newline join of the fragments; the
\* fragments are the content of every completion response of the run, in the
\* order received, interleaved with bracketed annotations of the tool calls.
C11_ReturnedIsContentAndAnnotations ==
    pc = "done" =>
       /\ returned = JoinText(final_text)
       /\ SelectSeq(final_text, LAMBDA f : ~IsAnnotation(f)) = ResponseContents

\* a run with an initial and a follow-up response has returned
C11_Witness ==
    /\ pc = "done"
    /\ Len(responses) = 2
    /\ responses[1].content # responses[2].content
    /\ Len(final_text) = 3

\* C12: once connected, process_query never raises to its caller.
C12_NeverRaises == pc # "raised"


\* C13: the tool invocations of concurrent runs are serialized on the
\* session: at most one call_tool is outstanding at any time.
C13_InvocationsSerialized == Cardinality(Outstanding) <= 1


\* ------------------------------------------- the tool synthesizer
\* the operation has been through the registration loop
Registered == tpc \in {"registered", "failed", "invoked"}

\* the parameters and body properties of the operation
DeclaredParams == operation.parameters \o operation.properties

\* the request carries value under the wire name n: in place of the {n} of
\* the path template, in the query or in the body
InPath(n, value) ==
    \E k \in 1..Len(tool.path) :
        /\ tool.path[k] = Placeholder(n)
        /\ \E m \in 1..Len(request.endpoint) : request.endpoint[m] = PathTextOf(value)
InQuery(n, value) == DictHas(request.params, n) /\ DictGet(request.params, n) = value
InBody(n, value) == DictHas(request.data, n) /\ DictGet(request.data, n) = value

Carries(n, value) == request.sent /\ (InPath(n, value) \/ InQuery(n, value) \/ InBody(n, value))

\* the default the claim gives for a declared type
ClaimedDefault(type) ==
    CASE type = "string" -> "''"
      [] type \in {"integer", "number"} -> "0"
      [] type = "boolean" -> "False"
      [] type = "array" -> "[]"
      [] OTHER -> "{}"

\* C14: every parameter or body property that is not required gets the
\* default of its declared type and is an optional entry of the signature,
\* in both servers.
C14_OptionalDefaultsMatchType ==
    tpc \in {"registered", "invoked"} =>
       \A k \in 1..Len(DeclaredParams) :
          LET ps == DeclaredParams[k] IN
          ~ps.required =>
             /\ DictGet(param_dict, ps.name).default = ClaimedDefault(ps.type)
             /\ \E e \in 1..Len(tool.optional_params) :
                   /\ WireName(tool, tool.optional_params[e].name) = ps.name
                   /\ tool.optional_params[e].default = ClaimedDefault(ps.type)

\* the safe names param_<base> and param_<base>_<n>
IsSafeNameFor(safe, base) ==
    \/ safe = <<"param", "_">> \o base
    \/ \E n \in 1..(MaxParams + 1) : safe = <<"param", "_">> \o base \o <<"_", ToString(n)>>

\* the text of value is in the path of the request
InEndpoint(value) ==
    \E m \in 1..Len(request.endpoint) : request.endpoint[m] = PathTextOf(value)

\* the value the call gave under a rewritten signature entry is in the
\* request under the entry's wire name and no entry of the query or the body
\* is under the safe name: the value is the query or body entry of the wire
\* name, or it is written into the path, where a text "{p}" is in turn
\* replaced by the argument of p
SuppliedReachWire ==
    tpc = "invoked" =>
       LET pv == ParamValues(tool, call) IN
       \A k \in 1..Len(pv) :
          DictHas(tool.param_mapping, pv[k].key) =>
             LET n == DictGet(tool.param_mapping, pv[k].key)
                 v == pv[k].value
             IN /\ request.sent
                /\ ~DictHas(request.params, pv[k].key)
                /\ ~DictHas(request.data, pv[k].key)
                /\ \/ InQuery(n, v)
                   \/ InBody(n, v)
                   \/ InEndpoint(v)
                   \/ /\ IsBrace(v)
                      /\ \E j \in 1..Len(pv) :
                            /\ WireName(tool, pv[j].key) = BraceName(v)
                            /\ InEndpoint(pv[j].value)

C16_SafeNamesDistinct ==
    Registered =>
       LET names == SignatureNames(tool) IN
       /\ \A a, b \in 1..Len(names) : a # b => names[a] # names[b]
       /\ { WireName(tool, names[a]) : a \in 1..Len(names) }
             = { param_dict[k].key : k \in 1..Len(param_dict) }

\* C17: a request is never sent with a {placeholder} left in its path; the
\* call fails with an unresolved-path-parameter error instead.
C17_NoPlaceholderInRequest ==
    tpc = "invoked" =>
       /\ request.sent =>
             \A k \in 1..Len(request.endpoint) : request.endpoint[k].t # "ph"
       /\ request.error \in {"", "UnresolvedPathParameterError"}

\* C18: a call without a value for a required parameter fails with a
\* missing-parameter error and sends no request.
C18_MissingRequiredFails ==
    tpc = "invoked" =>
       ((\E k \in 1..Len(tool.required_params) :
            ~DictHas(ParamValues(tool, call), tool.required_params[k]))
        => (~request.sent /\ request.error = "MissingParameterError"))

\* C19: the request carries every optional parameter the call omitted, with
\* its default, under its wire name.
C19_OmittedOptionalsDefaulted ==
    tpc = "invoked" =>
       \A e \in 1..Len(tool.optional_params) :
          LET entry == tool.optional_params[e] IN
          ~DictHas(ParamValues(tool, call), entry.name) =>
             Carries(WireName(tool, entry.name), entry.default)

\* C20: every supplied argument is in exactly one place of the request: in
\* the path when the template has its {wire name}, else in the query for get
\* and delete and in the body for other methods; nothing else is in the
\* request, and its method is the operation's.
C20_ArgumentsRouted ==
    tpc = "invoked" =>
       LET pv == ParamValues(tool, call)
           wire(k) == WireName(tool, pv[k].key)
           inTemplate(n) == \E m \in 1..Len(tool.path) : tool.path[m] = Placeholder(n)
       IN /\ request.sent
          /\ request.method = Upper(operation.method)
          /\ \A k \in 1..Len(pv) :
                IF inTemplate(wire(k))
                THEN /\ InPath(wire(k), pv[k].value)
                     /\ ~DictHas(request.params, wire(k))
                     /\ ~DictHas(request.data, wire(k))
                     /\ \A m \in 1..Len(request.endpoint) :
                           request.endpoint[m] # Placeholder(wire(k))
                ELSE IF operation.method \in {"get", "delete"}
                THEN InQuery(wire(k), pv[k].value) /\ ~DictHas(request.data, wire(k))
                ELSE InBody(wire(k), pv[k].value) /\ ~DictHas(request.params, wire(k))
          /\ \A m \in 1..Len(request.params) :
                \E k \in 1..Len(pv) : wire(k) = request.params[m].key /\ ~inTemplate(wire(k))
          /\ \A m \in 1..Len(request.data) :
                \E k \in 1..Len(pv) : wire(k) = request.data[m].key /\ ~inTemplate(wire(k))
          /\ Len(request.endpoint) = Len(tool.path) - 1

InTemplate(n) == \E m \in 1..Len(operation.path) : operation.path[m] = Placeholder(n)

\* C22: every parameter the path template names is a required entry of the
\* signature, whatever the description's required flag says.
C22_PathParamsRequired ==
    tpc \in {"registered", "invoked"} =>
       \A k \in 1..Len(DeclaredParams) :
          InTemplate(DeclaredParams[k].name) =>
             /\ \E e \in 1..Len(tool.required_params) :
                   WireName(tool, tool.required_params[e]) = DeclaredParams[k].name
             /\ \A e \in 1..Len(tool.optional_params) :
                   WireName(tool, tool.optional_params[e].name) # DeclaredParams[k].name

\* ------------------------------------------------- the tag catalogue
\* how often the result of list_tags has the name under the tag
TimesUnder(name, tag) ==
    LET entries == SelectSeq(tags_list, LAMBDA e : e.name = tag)
    IN IF entries = <<>> THEN 0
       ELSE Len(SelectSeq(entries[1].tools, LAMBDA n : n = name))

\* C23: the result of list_tags has the name of every registered tool once
\* under each tag its operation declares and under no other tag.
C23_ListedOncePerDeclaredTag ==
    spc = "listed" =>
       \A k \in 1..Len(resolved_spec.operations) :
          LET op == resolved_spec.operations[k] IN
          IsRegistered(variant, op) =>
             \A tag \in TagNames :
                TimesUnder(ToolName(variant, op), tag)
                   = (IF tag \in Range(op.tags) THEN 1 ELSE 0)

\* C24: an operation with an operationId and a supported verb and no tags
\* is registered under its name and is under no tag of the list_tags result,
\* in both servers.
C24_UntaggedRegisteredNotListed ==
    \A k \in 1..Len(resolved_spec.operations) :
       LET op == resolved_spec.operations[k] IN
       (op.operationId # <<>> /\ ValidMethod(op.method) /\ op.tags = <<>>) =>
          /\ spc \in {"created", "listed"} => op.operationId \in Range(registered_tools)
          /\ spc = "listed" => \A tag \in TagNames : TimesUnder(op.operationId, tag) = 0

\* --------------------------------------------- the planning client
\* content.strip().lower() of a provider content
StripPads(c) == SelectSeq(c, LAMBDA x : x # " ")
LowerWord(w) ==
    CASE w \in {"true", "TRUE", "True"} -> "true"
      [] w \in {"false", "FALSE"} -> "false"
      [] OTHER -> w
TrimmedLower(c) == LowerWord(StripPads(c)[1])

\* C25: _should_use_planning returns False, and does not raise, when
\* task_planner is None and when chat_completion raises.
C25_PlanningFailsClosed ==
    (ppc = "called" /\ (task_planner = "None" \/ (task_planner = "planner" /\ llm.raises)))
       => plan_result = "False"

\* C26: with a planner set, _should_use_planning returns True exactly when
\* the content, trimmed and lower-cased, is "true", and False when it is
\* "false".
C26_PlanningFollowsContent ==
    (ppc = "called" /\ task_planner = "planner" /\ ~llm.raises) =>
       /\ (plan_result = "True") <=> (TrimmedLower(llm.content) = "true")
       /\ (TrimmedLower(llm.content) = "false") => plan_result = "False"

\* ------------------------------------------------- the conversation
\* the messages of the conversation with the role tool
ToolMessagesOf(id) ==
    SelectSeq(messages, LAMBDA m : m.role = "tool" /\ m.tool_call_id = id)

\* C27: every tool-call id has at most one tool message in the
\* conversation.
C27_OneToolMessagePerCall ==
    \A k \in 1..NumCalls :
        Len(ToolMessagesOf(response_message.tool_calls[k].id)) <= 1

\* C28: every tool message comes after an assistant message whose tool
\* calls have its tool_call_id.
C28_ToolMessageAfterItsRequest ==
    \A k \in 1..Len(messages) :
        messages[k].role = "tool" =>
           \E j \in 1..(k - 1) :
              /\ messages[j].role = "assistant"
              /\ \E c \in 1..Len(messages[j].tool_calls) :
                    messages[j].tool_calls[c].id = messages[k].tool_call_id

\* C29: for a turn that requests N >= 1 tool calls, the assistant message
\* with the calls is in the conversation exactly once.
C29_OneAssistantMessagePerTurn ==
    (pc = "done" /\ NumCalls >= 1) =>
       Len(SelectSeq(messages, LAMBDA m : m.role = "assistant")) = 1

\* the work of one run is bounded: one classification call, one initial
\* call, and per requested tool call one call_tool and one follow-up call
BoundedWork ==
    /\ Len(CompletionsOf("triage")) <= 1
    /\ Len(CompletionsOf("initial")) <= 1
    /\ \A k \in 1..NumCalls :
          Len(SelectSeq(invoked, LAMBDA c : c = response_message.tool_calls[k])) <= 1
    /\ Len(invoked) <= NumCalls
    /\ Len(CompletionsOf("followup")) <= Len(invoked)

\* the run has returned or raised
Terminated == pc \in {"done", "raised"}

\* C30: every run of process_query ends, and its work is bounded as in
\* BoundedWork.
C30_TerminatesWithBoundedWork == []BoundedWork /\ <>Terminated

\* a run that has returned after MaxCalls tool calls, each invoked once and
\* followed by one completion call
C30_Witness ==
    /\ pc = "done"
    /\ NumCalls >= 2
    /\ Len(invoked) = NumCalls
    /\ Len(CompletionsOf("followup")) = NumCalls
    /\ Len(CompletionsOf("triage")) = 1

====
